---- MODULE Spec2Model ----
(***************************************************************************)
(* Model of the tournament logic of FontTesterApp                          *)
(* (src/font_tester_advanced.py): the single-elimination comparison of a   *)
(* list of fonts, driven by select_left / select_right and the arrow keys. *)
(*                                                                         *)
(* A font is a number of 1..MaxFonts.  The object's fields are the fields  *)
(* of the record `self`; every method is an operator from the object's     *)
(* state to its state after the call, and every action is one call made by *)
(* the Qt event loop (or by main).  pick_log and ignored are history       *)
(* variables: they record the calls made and are read by no method.        *)
(***************************************************************************)
EXTENDS Integers, Sequences, FiniteSets, TLC

\* Largest number of fonts handed to the constructor.
MaxFonts == 8

\* Largest number of select / key calls followed after the result is shown.
MaxIgnored == 2

\* display_result shows at most this many result lines.
MaxShown == 6

\* QLabel(""): a font label that shows no font.
NoFont == 0

\* calculate_total_rounds is compared with the logarithm on 1 .. RoundsRange.
RoundsRange == 64

VARIABLES
    fonts,      \* the list main hands to FontTesterApp(fonts)
    pc,         \* "main": before construction; "exec": in app.exec_(); "exit": ended by an exception
    self,       \* the fields of the FontTesterApp object
    pick_log,   \* history: one entry per pick that passed the selection_enabled guard
    ignored     \* history: select / key calls made while selection was disabled

vars == <<fonts, pc, self, pick_log, ignored>>

Font == 1 .. MaxFonts

Min(a, b) == IF a <= b THEN a ELSE b

\* seq[::2]
EvenSlice(seq) == [i \in 1 .. ((Len(seq) + 1) \div 2) |-> seq[2 * i - 1]]

\* seq[1::2]
OddSlice(seq) == [i \in 1 .. (Len(seq) \div 2) |-> seq[2 * i]]

\* list(zip(a, b)): as long as the shorter argument
Zip(a, b) == [i \in 1 .. Min(Len(a), Len(b)) |-> <<a[i], b[i]>>]

\* pairs = list(zip(current_round_fonts[::2], current_round_fonts[1::2]))
Pairs(round) == Zip(EvenSlice(round), OddSlice(round))

\* The loop with `num_fonts // 2` for `(num_fonts + 1) // 2`.
RECURSIVE total_rounds_loop_Floor(_, _)
total_rounds_loop_Floor(num_fonts, rounds) ==
    IF num_fonts > 1
    THEN total_rounds_loop_Floor(num_fonts \div 2, rounds + 1)
    ELSE rounds

\* The while loop of calculate_total_rounds, from (num_fonts, rounds).
RECURSIVE total_rounds_loop(_, _)
total_rounds_loop(num_fonts, rounds) ==
    IF num_fonts > 1
    THEN total_rounds_loop((num_fonts + 1) \div 2, rounds + 1)
    ELSE rounds

\* The rounds counted from the number of pairs of the first round.
calculate_total_rounds_FromPairs(num_fonts) == total_rounds_loop(num_fonts \div 2, 0)

calculate_total_rounds(num_fonts) == total_rounds_loop(num_fonts, 0)

\* Counter, as its items in insertion order: winner_counts[font] += 1
CounterKeys(counter) == {counter[i][1] : i \in 1 .. Len(counter)}

CounterGet(counter, font) ==
    IF font \in CounterKeys(counter)
    THEN LET i == CHOOSE j \in 1 .. Len(counter) : counter[j][1] = font
         IN  counter[i][2]
    ELSE 0

CounterIncrement(counter, font) ==
    IF font \in CounterKeys(counter)
    THEN [i \in 1 .. Len(counter) |->
            IF counter[i][1] = font
            THEN <<font, counter[i][2] + 1>>
            ELSE counter[i]]
    ELSE Append(counter, <<font, 1>>)

\* An ascending sort: `reverse=True` left out.
RECURSIVE InsertAscending(_, _)
InsertAscending(item, sorted) ==
    IF sorted = <<>> THEN <<item>>
    ELSE IF Head(sorted)[2] <= item[2]
         THEN <<Head(sorted)>> \o InsertAscending(item, Tail(sorted))
         ELSE <<item>> \o sorted

\* A sort that is not stable: item goes before the entries of equal count, as
\* an ascending sort read backwards would place it.
RECURSIVE InsertDescending_Unstable(_, _)
InsertDescending_Unstable(item, sorted) ==
    IF sorted = <<>> THEN <<item>>
    ELSE IF Head(sorted)[2] > item[2]
         THEN <<Head(sorted)>> \o InsertDescending_Unstable(item, Tail(sorted))
         ELSE <<item>> \o sorted

\* One step of a stable descending sort: item goes after every entry whose
\* count is at least its own.
RECURSIVE InsertDescending(_, _)
InsertDescending(item, sorted) ==
    IF sorted = <<>> THEN <<item>>
    ELSE IF Head(sorted)[2] >= item[2]
         THEN <<Head(sorted)>> \o InsertDescending(item, Tail(sorted))
         ELSE <<item>> \o sorted

\* sorted(items, key=lambda x: x[1], reverse=True): stable, so items of equal
\* count keep the order they have in items.
RECURSIVE SortedByCount(_)
SortedByCount(items) ==
    IF items = <<>> THEN <<>>
    ELSE InsertDescending(items[Len(items)],
                          SortedByCount(SubSeq(items, 1, Len(items) - 1)))

\* result_lines[:6]
Shown(lines) == SubSeq(lines, 1, Min(Len(lines), MaxShown))

\* The fields set by __init__ before init_ui runs, and the widgets init_ui creates.
NewApp(fs) ==
    [ current_round_fonts |-> fs,
      round_winners       |-> <<>>,
      current_pair_index  |-> 0,
      round_number        |-> 1,
      total_rounds        |-> calculate_total_rounds(Len(fs)),
      winner_counts       |-> <<>>,
      selection_enabled   |-> TRUE,
      buttons_enabled     |-> TRUE,
      left_font_label     |-> NoFont,
      right_font_label    |-> NoFont,
      status_label        |-> [kind |-> "empty"],
      progress_bar        |-> 0,
      result_lines        |-> <<>>,
      raised              |-> "none" ]

\* display_result without `self.selection_enabled = False`.
display_result_KeepsSelection(s) ==
    LET off == [s EXCEPT !.buttons_enabled = FALSE]
    IN  IF Len(off.round_winners) = 0
        THEN [off EXCEPT !.raised = "IndexError"]
        ELSE LET lines == SortedByCount(off.winner_counts)
             IN  [off EXCEPT !.result_lines = lines,
                             !.status_label = [kind |-> "result", lines |-> Shown(lines)]]

\* display_result: disables the input, then reads round_winners[0].
display_result(s) ==
    LET off == [s EXCEPT !.selection_enabled = FALSE, !.buttons_enabled = FALSE]
    IN  IF Len(off.round_winners) = 0
        THEN [off EXCEPT !.raised = "IndexError"]
        ELSE LET lines == SortedByCount(off.winner_counts)
             IN  [off EXCEPT !.result_lines = lines,
                             !.status_label = [kind |-> "result", lines |-> Shown(lines)]]

\* The branch of update_fonts that shows the pair at current_pair_index.
show_pair(s) ==
    LET pairs == Pairs(s.current_round_fonts)
        pair  == pairs[s.current_pair_index + 1]
    IN  [s EXCEPT !.left_font_label  = pair[1],
                  !.right_font_label = pair[2],
                  !.status_label = [kind   |-> "round",
                                    round  |-> s.round_number,
                                    of     |-> s.total_rounds,
                                    pair   |-> s.current_pair_index + 1,
                                    pairs  |-> Len(pairs)],
                  !.progress_bar =
                      ((s.current_pair_index + Len(s.round_winners)) * 100)
                          \div Len(s.current_round_fonts)]

\* start_next_round without `self.round_winners = []`.
next_round_fields_KeepWinners(s) ==
    LET w       == s.round_winners
        carried == IF Len(w) % 2 = 1 THEN Append(w, w[Len(w)]) ELSE w
    IN  [s EXCEPT !.current_round_fonts = carried,
                  !.current_pair_index  = 0,
                  !.round_number        = s.round_number + 1]

\* start_next_round without the carry-over of an odd number of winners.
next_round_fields_NoCarry(s) ==
    [s EXCEPT !.current_round_fonts = s.round_winners,
              !.round_winners       = <<>>,
              !.current_pair_index  = 0,
              !.round_number        = s.round_number + 1]

\* The fields start_next_round assigns when more than one winner is left.
next_round_fields(s) ==
    LET w       == s.round_winners
        carried == IF Len(w) % 2 = 1 THEN Append(w, w[Len(w)]) ELSE w
    IN  [s EXCEPT !.current_round_fonts = carried,
                  !.round_winners       = <<>>,
                  !.current_pair_index  = 0,
                  !.round_number        = s.round_number + 1]

RECURSIVE update_fonts(_)

start_next_round(s) ==
    IF Len(s.round_winners) > 1
    THEN update_fonts(next_round_fields(s))
    ELSE display_result(s)

\* update_fonts without its else branch: nothing follows the round's last pair.
update_fonts_NoElse(s) ==
    CHOOSE after \in
        {IF v.current_pair_index < Len(Pairs(v.current_round_fonts))
         THEN show_pair(v)
         ELSE v : v \in {s}} : TRUE

\* v is the object the method is called on, evaluated once: the state after
\* the call is the one element of the set.
update_fonts(s) ==
    CHOOSE after \in
        {IF v.current_pair_index < Len(Pairs(v.current_round_fonts))
         THEN show_pair(v)
         ELSE start_next_round(v) : v \in {s}} : TRUE

\* A pick without `self.winner_counts[font] += 1`.
record_pick_NoTally(s, side) ==
    LET pairs == Pairs(s.current_round_fonts)
    IN  IF s.current_pair_index >= Len(pairs)
        THEN [s EXCEPT !.raised = "IndexError"]
        ELSE LET font == pairs[s.current_pair_index + 1][side]
             IN  update_fonts(
                   [s EXCEPT !.round_winners      = Append(s.round_winners, font),
                             !.current_pair_index = s.current_pair_index + 1])

\* A pick that advances current_pair_index by 2.
record_pick_SkipsPair(s, side) ==
    LET pairs == Pairs(s.current_round_fonts)
    IN  IF s.current_pair_index >= Len(pairs)
        THEN [s EXCEPT !.raised = "IndexError"]
        ELSE LET font == pairs[s.current_pair_index + 1][side]
             IN  update_fonts(
                   [s EXCEPT !.round_winners      = Append(s.round_winners, font),
                             !.winner_counts      = CounterIncrement(s.winner_counts, font),
                             !.current_pair_index = s.current_pair_index + 2])

\* The body of select_left / select_right under the selection_enabled guard;
\* side is 1 for the left font of the pair and 2 for the right one.
record_pick(s, side) ==
    LET pairs == Pairs(s.current_round_fonts)
    IN  IF s.current_pair_index >= Len(pairs)
        THEN [s EXCEPT !.raised = "IndexError"]
        ELSE LET font == pairs[s.current_pair_index + 1][side]
             IN  update_fonts(
                   [s EXCEPT !.round_winners      = Append(s.round_winners, font),
                             !.winner_counts      = CounterIncrement(s.winner_counts, font),
                             !.current_pair_index = s.current_pair_index + 1])

\* select_left without the `if self.selection_enabled` guard.
select_left_Unguarded(s) == record_pick(s, 1)

select_left(s) == IF s.selection_enabled THEN record_pick(s, 1) ELSE s

\* select_right without the `if self.selection_enabled` guard.
select_right_Unguarded(s) == record_pick(s, 2)

select_right(s) == IF s.selection_enabled THEN record_pick(s, 2) ELSE s

Key == {"Left", "Right", "Other"}

\* eventFilter on a KeyPress event of the given key.
eventFilter(s, key) ==
    IF s.selection_enabled
    THEN CASE key = "Left"  -> select_left(s)
           [] key = "Right" -> select_right(s)
           [] OTHER         -> s
    ELSE s

\* The pair a pick is made on, and the font it chooses.
LogEntry(s, side) ==
    LET pair == Pairs(s.current_round_fonts)[s.current_pair_index + 1]
    IN  [left |-> pair[1], right |-> pair[2], chosen |-> pair[side]]

\* main hands over a random sample of the font families: pairwise distinct
\* names, in one of two orders here.
Ascending(n) == [i \in 1 .. n |-> i]

Descending(n) == [i \in 1 .. n |-> n + 1 - i]

Init ==
    /\ \E n \in 0 .. MaxFonts : fonts \in {Ascending(n), Descending(n)}
    /\ pc = "main"
    /\ self = NewApp(<<>>)
    /\ pick_log = <<>>
    /\ ignored = 0

\* window = FontTesterApp(selected_fonts): __init__, whose init_ui ends in update_fonts.
Construct ==
    /\ pc = "main"
    /\ self' = update_fonts(NewApp(fonts))
    /\ pc' = IF self'.raised = "none" THEN "exec" ELSE "exit"
    /\ UNCHANGED <<fonts, pick_log, ignored>>

\* The history kept of a call of select_left / select_right (side 1 / 2).
Logged(side) ==
    IF self.selection_enabled /\ self'.raised = "none"
    THEN /\ pick_log' = Append(pick_log, LogEntry(self, side))
         /\ ignored' = ignored
    ELSE /\ pick_log' = pick_log
         /\ ignored' = ignored + 1

Called(after) ==
    /\ pc = "exec"
    /\ self.selection_enabled \/ ignored < MaxIgnored
    /\ self' = after
    /\ pc' = IF after.raised = "none" THEN "exec" ELSE "exit"
    /\ UNCHANGED fonts

SelectLeft == Called(select_left(self)) /\ Logged(1)

SelectRight == Called(select_right(self)) /\ Logged(2)

KeyPress ==
    \E key \in Key :
        /\ Called(eventFilter(self, key))
        /\ CASE self.selection_enabled /\ key = "Left"  -> Logged(1)
             [] self.selection_enabled /\ key = "Right" -> Logged(2)
             [] self.selection_enabled /\ key = "Other" -> UNCHANGED <<pick_log, ignored>>
             [] OTHER -> pick_log' = pick_log /\ ignored' = ignored + 1

Next == Construct \/ SelectLeft \/ SelectRight \/ KeyPress

Spec == Init /\ [][Next]_vars

\* The construction is carried out, and picks keep being supplied while a
\* pair awaits one.
FairSpec ==
    /\ Spec
    /\ WF_vars(Construct)
    /\ WF_vars(SelectLeft \/ SelectRight)

-----------------------------------------------------------------------------
(* What the properties below speak of. *)

N == Len(fonts)

\* The result is displayed and selection is disabled.
Finished == pc = "exec" /\ ~self.selection_enabled

\* The number of picks recorded so far.
Picks == Len(pick_log)

\* This step is a pick that passed the selection_enabled guard.
PickStep == pc = "exec" /\ Len(pick_log') = Len(pick_log) + 1

\* This step is a select / key call made while selection was disabled.
IgnoredStep == pc = "exec" /\ ignored' = ignored + 1

Range(seq) == {seq[i] : i \in 1 .. Len(seq)}

RECURSIVE SumCounts(_)
SumCounts(counter) ==
    IF counter = <<>> THEN 0 ELSE Head(counter)[2] + SumCounts(Tail(counter))

\* The place of a font's first appearance in a sequence.
FirstIndex(seq, font) ==
    CHOOSE i \in 1 .. Len(seq) :
        seq[i] = font /\ \A j \in 1 .. (i - 1) : seq[j] # font

\* The picks of the log in which font was chosen over a different font.
WinsOverOther(font) ==
    {i \in 1 .. Len(pick_log) :
        /\ pick_log[i].chosen = font
        /\ pick_log[i].left # pick_log[i].right}

\* progress() = ProgressNum / ProgressDen
ProgressNum(s) == s.current_pair_index + Len(s.round_winners)

ProgressDen(s) == Len(s.current_round_fonts)

-----------------------------------------------------------------------------
\* C1: for N >= 2 distinct fonts the tournament is finished after exactly
\* N - 1 recorded picks: never after fewer, and it never takes more.
C1_FinishedAfterNMinusOnePicks ==
    (pc = "exec" /\ N >= 2) =>
        /\ Picks <= N - 1
        /\ Finished <=> (Picks = N - 1)

\* C2: the pick that completes a round of odd length starts a next round
\* (the tournament is not finished by it), and the unpaired last font of the
\* completed round is one of the next round's fonts.
C2_UnpairedLastIsPromoted ==
    [][(/\ PickStep
        /\ Len(self.current_round_fonts) % 2 = 1
        /\ self.current_pair_index + 1 = Len(Pairs(self.current_round_fonts)))
       => (/\ self'.selection_enabled
           /\ self'.round_number = self.round_number + 1
           /\ self.current_round_fonts[Len(self.current_round_fonts)]
                  \in Range(self'.current_round_fonts))]_vars

\* C3: while a pair awaits a pick, the two fonts shown are different fonts: a
\* font is never shown against its own bye duplicate.
C3_ShownPairIsTwoFonts ==
    (pc = "exec" /\ self.selection_enabled) =>
        self.left_font_label # self.right_font_label

\* C4: every font's tally is the number of recorded picks in which it was
\* chosen over a different font: a pair of a font and itself adds nothing.
C4_TallyCountsRealWins ==
    \A font \in Font :
        CounterGet(self.winner_counts, font) = Cardinality(WinsOverOther(font))

\* C5: the values of winner_counts sum to the number of picks recorded so
\* far, in every state: within a round, across rounds and when finished.
C5_TallySumIsPicks == SumCounts(self.winner_counts) = Picks

C5_Witness ==
    /\ Finished
    /\ self.round_number >= 3
    /\ Picks >= 6
    /\ SumCounts(self.winner_counts) = Picks

\* C6: when finished, the ranking lists exactly the keys of winner_counts,
\* each once and with its count, by count descending, and fonts of equal count
\* in the order of their first appearance in the list given to the constructor.
C6_RankingByTallyThenInputOrder ==
    Finished =>
        LET lines == self.result_lines
        IN  /\ Len(lines) = Len(self.winner_counts)
            /\ {lines[i][1] : i \in 1 .. Len(lines)} = CounterKeys(self.winner_counts)
            /\ \A i \in 1 .. Len(lines) :
                   lines[i][2] = CounterGet(self.winner_counts, lines[i][1])
            /\ \A i, j \in 1 .. Len(lines) :
                   i < j =>
                       \/ lines[i][2] > lines[j][2]
                       \/ /\ lines[i][2] = lines[j][2]
                          /\ FirstIndex(fonts, lines[i][1]) < FirstIndex(fonts, lines[j][1])

\* A finished tournament on a descending list whose ranking has a tie.
C6_Witness ==
    /\ Finished
    /\ N >= 4
    /\ fonts = Descending(N)
    /\ \E i, j \in 1 .. Len(self.result_lines) :
           /\ i < j
           /\ self.result_lines[i][2] = self.result_lines[j][2]
           /\ self.result_lines[i][1] > self.result_lines[j][1]

\* C7: a select_left / select_right call or arrow key made after the
\* tournament is finished produces an AlreadyFinished error.
C7_PickAfterFinishRaises ==
    [][(Finished /\ IgnoredStep) => self'.raised = "AlreadyFinished"]_vars

\* C7, amended: a select_left / select_right call or arrow key made after the
\* tournament is finished raises nothing: it is ignored, the event loop goes
\* on and no field of the object changes.
C7_PickAfterFinishIsIgnored ==
    [][(Finished /\ IgnoredStep) =>
           (self'.raised = "none" /\ pc' = "exec" /\ self' = self)]_vars

C7_Witness == Finished /\ ignored >= 1 /\ self.raised = "none"

\* C8: constructing the app on fewer than 2 fonts raises InvalidConstruction
\* before display_result runs (which would disable the selection).
C8_FewerThanTwoIsRejected ==
    (pc # "main" /\ N < 2) =>
        (self.raised = "InvalidConstruction" /\ self.selection_enabled)

\* C9: the progress value ProgressNum / ProgressDen lies in [0, 1]; a pick
\* that leaves the round unfinished makes it strictly greater; a pick that
\* starts a new round leaves it less than or equal to what it was.
C9_ProgressBounds ==
    /\ [](pc = "exec" =>
            /\ ProgressDen(self) > 0
            /\ 0 <= ProgressNum(self)
            /\ ProgressNum(self) <= ProgressDen(self))
    /\ [][PickStep =>
            /\ (self'.selection_enabled /\ self'.round_number = self.round_number)
                  => ProgressNum(self') * ProgressDen(self)
                         > ProgressNum(self) * ProgressDen(self')
            /\ (self'.round_number = self.round_number + 1)
                  => ProgressNum(self') * ProgressDen(self)
                         <= ProgressNum(self) * ProgressDen(self')]_vars

\* A new round was begun by a pick made at a progress value above 0, and a
\* pick inside the new round has raised the value again.
C9_Witness ==
    /\ pc = "exec"
    /\ self.selection_enabled
    /\ self.round_number = 2
    /\ self.current_pair_index = 1
    /\ ProgressNum(self) = 2
    /\ ProgressDen(self) = 4

\* C10: when the tournament is finished, round_number equals total_rounds.
C10_FinishedInTotalRounds ==
    Finished => self.round_number = self.total_rounds

\* C11: for N >= 2 fonts, if picks keep being supplied the tournament
\* eventually is finished, with exactly one font in round_winners.
C11_EventuallyFinished ==
    (pc = "main" /\ N >= 2) ~> (Finished /\ Len(self.round_winners) = 1)

\* The finished state of a tournament of several rounds.
C11_Witness ==
    /\ Finished
    /\ Len(self.round_winners) = 1
    /\ self.round_number >= 2
    /\ N >= 5

\* The entry the pick of this step adds to the log.
NewEntry == pick_log'[Len(pick_log')]

\* C12: a pick that does not complete the round appends the chosen member of
\* the current pair (places 2 * index and 2 * index + 1 of the round, counted
\* from 0) to round_winners, adds 1 to that font's tally, advances
\* current_pair_index by 1 and leaves the round's fonts, every other tally,
\* round_number and total_rounds as they were.
C12_PickFrame ==
    [][(/\ PickStep
        /\ self.current_pair_index + 1 < Len(Pairs(self.current_round_fonts)))
       => LET i      == self.current_pair_index
              round  == self.current_round_fonts
              chosen == NewEntry.chosen
          IN  /\ NewEntry.left = round[2 * i + 1]
              /\ NewEntry.right = round[2 * i + 2]
              /\ chosen \in {round[2 * i + 1], round[2 * i + 2]}
              /\ self'.round_winners = Append(self.round_winners, chosen)
              /\ \A font \in Font :
                     CounterGet(self'.winner_counts, font) =
                         CounterGet(self.winner_counts, font)
                             + (IF font = chosen THEN 1 ELSE 0)
              /\ self'.current_pair_index = i + 1
              /\ self'.current_round_fonts = round
              /\ self'.round_number = self.round_number
              /\ self'.total_rounds = self.total_rounds]_vars

\* The second pick of a first round of at least three pairs has been made.
C12_Witness ==
    /\ pc = "exec"
    /\ self.selection_enabled
    /\ self.round_number = 1
    /\ self.current_pair_index = 2
    /\ Picks = 2
    /\ Len(self.round_winners) = 2

\* The winners a round hands on: with the last one once more when odd.
HandedOn(winners) ==
    IF Len(winners) % 2 = 1
    THEN Append(winners, winners[Len(winners)])
    ELSE winners

\* C13: when a pick starts a new round, the new round's fonts are the
\* completed round's winners in order (the last once more if they were odd in
\* number), of even length >= 2; round_winners is empty, current_pair_index is
\* 0 and round_number has grown by 1.  So every round after the first has even
\* length.
C13_NewRound ==
    /\ []((pc = "exec" /\ self.round_number >= 2) =>
            /\ Len(self.current_round_fonts) % 2 = 0
            /\ Len(self.current_round_fonts) >= 2)
    /\ [][(PickStep /\ self'.round_number # self.round_number) =>
            /\ self'.current_round_fonts =
                   HandedOn(Append(self.round_winners, NewEntry.chosen))
            /\ Len(self'.current_round_fonts) % 2 = 0
            /\ Len(self'.current_round_fonts) >= 2
            /\ self'.round_winners = <<>>
            /\ self'.current_pair_index = 0
            /\ self'.round_number = self.round_number + 1]_vars

\* A second round that begins with the carried-over winner in it twice.
C13_Witness ==
    /\ pc = "exec"
    /\ self.round_number = 2
    /\ self.current_pair_index = 0
    /\ self.round_winners = <<>>
    /\ Len(self.current_round_fonts) = 4
    /\ self.current_round_fonts[3] = self.current_round_fonts[4]

\* C14: the finished state is absorbing: every later call leaves the round's
\* fonts, current_pair_index, round_winners, winner_counts, round_number and
\* the finished flag as they are.
C14_FinishedIsAbsorbing ==
    [][Finished =>
          /\ Finished'
          /\ self'.current_round_fonts = self.current_round_fonts
          /\ self'.current_pair_index = self.current_pair_index
          /\ self'.round_winners = self.round_winners
          /\ self'.winner_counts = self.winner_counts
          /\ self'.round_number = self.round_number
          /\ self'.selection_enabled = self.selection_enabled]_vars

\* Two calls have been made on a finished tournament of three rounds.
C14_Witness ==
    /\ Finished
    /\ ignored >= 2
    /\ self.round_number = 3
    /\ Len(self.round_winners) = 1

\* C15: 0 <= current_pair_index <= floor(len(current_round_fonts) / 2).
C15_PairIndexInRange ==
    /\ 0 <= self.current_pair_index
    /\ self.current_pair_index <= Len(self.current_round_fonts) \div 2

\* The last pair of a first round of four pairs awaits its pick.
C15_Witness ==
    /\ pc = "exec"
    /\ self.selection_enabled
    /\ self.current_pair_index = 3
    /\ Len(self.current_round_fonts) = 8

\* ceil(log2(n)): the least r with 2^r >= n.
CeilLog2(n) ==
    CHOOSE r \in 0 .. n : 2 ^ r >= n /\ \A q \in 0 .. (r - 1) : 2 ^ q < n

\* C16: calculate_total_rounds(n) is ceil(log2(n)) for every n of
\* 1 .. RoundsRange (0 for n = 1); total_rounds holds that value of the number
\* of fonts, and no call changes it after the construction.
C16_TotalRoundsIsCeilLog2 ==
    /\ [](\A n \in 1 .. RoundsRange : calculate_total_rounds(n) = CeilLog2(n))
    /\ []((pc # "main" /\ N >= 1) => self.total_rounds = CeilLog2(N))
    /\ [][pc # "main" => self'.total_rounds = self.total_rounds]_vars

\* Picks have been made on 5 fonts, for which 3 rounds were computed.
C16_Witness ==
    /\ pc = "exec"
    /\ N = 5
    /\ self.total_rounds = 3
    /\ Picks >= 2

\* C17: for N >= 2, while selection is enabled a pair awaits its pick:
\* current_pair_index < floor(len(current_round_fonts) / 2); so no pick indexes
\* past the pairs, and no call ends in an exception.
C17_PendingPairWhileEnabled ==
    /\ (pc = "exec" /\ self.selection_enabled) =>
           self.current_pair_index < Len(self.current_round_fonts) \div 2
    /\ N >= 2 => (pc # "exit" /\ self.raised = "none")

\* The one pair of a third round awaits its pick.
C17_Witness ==
    /\ pc = "exec"
    /\ self.selection_enabled
    /\ self.round_number = 3
    /\ self.current_pair_index = 0
    /\ Len(self.current_round_fonts) = 2

\* C18: when finished, the surviving winner round_winners[0] has a tally
\* strictly greater than every other font's, and is the first entry of the
\* ranking and of the lines shown after 'Final Winner'.
C18_WinnerLeadsRanking ==
    Finished =>
        LET winner == self.round_winners[1]
        IN  /\ \A font \in Font \ {winner} :
                   CounterGet(self.winner_counts, winner)
                       > CounterGet(self.winner_counts, font)
            /\ self.result_lines[1][1] = winner
            /\ self.status_label.kind = "result"
            /\ self.status_label.lines[1][1] = winner

\* A finished tournament whose runner-up is one pick behind the winner's 3.
C18_Witness ==
    /\ Finished
    /\ CounterGet(self.winner_counts, self.round_winners[1]) = 3
    /\ \E font \in Font \ {self.round_winners[1]} :
           CounterGet(self.winner_counts, font) = 2

\* C19: for N >= 2, 1 <= round_number <= total_rounds in every state of the
\* running app.
C19_RoundNumberInRange ==
    pc = "exec" =>
        /\ 1 <= self.round_number
        /\ self.round_number <= self.total_rounds

\* A tournament finished in fewer rounds than were computed.
C19_Witness ==
    /\ Finished
    /\ self.round_number >= 2
    /\ self.round_number < self.total_rounds

\* C20: current_pair_index equals len(round_winners) between the calls.
C20_IndexIsWinnerCount ==
    self.current_pair_index = Len(self.round_winners)

\* A tournament finished in its second round: index and winners are both 1.
C20_Witness ==
    /\ Finished
    /\ self.round_number = 2
    /\ self.current_pair_index = 1
    /\ Len(self.round_winners) = 1

====
